---- MODULE Spec2Model ----
(***************************************************************************)
(* Model of the Users and Hosts classes of src/core/src/model/hosts.ts:    *)
(* the users table, UID allocation under the ACCESS EXCLUSIVE lock,        *)
(* authentication with legacy digest migration, and password-change        *)
(* tokens.                                                                 *)
(***************************************************************************)
EXTENDS Integers, Sequences, FiniteSets, TLC

VARIABLES
    users,              \* committed rows of the users table
    nextIdx,            \* the serial behind users.idx
    posixAccountsCache, \* Users.posixAccountsCache
    minUid,             \* model.config.posix.minUid
    newUid,             \* the value the last generateUid call returned
    tx,                 \* the open transactions and the position of each create
    now,                \* the clock: NOW() and moment()
    lastCall,           \* the most recent call: its arguments and its outcome
    tokens,             \* rows of the password_change_tokens table
    randomCounter,      \* how many 32-byte random tokens were drawn
    hosts,              \* rows of the hosts table
    hostGroups,         \* rows of the host_groups table
    userPermissions,    \* what model.permissions answers: <<userIdx, permissionIdx>>
    userMemberships,    \* rows of the user_memberships table
    groupRelations,     \* the group graph model.groups walks: <<member, of>>
    emailAddresses,     \* rows of the email_addresses table
    emailVerificationTokens \* rows of the email_verification_tokens table

vars == <<users, nextIdx, posixAccountsCache, minUid, newUid, tx, now,
          lastCall, tokens, randomCounter, hosts, hostGroups, userPermissions,
          userMemberships, groupRelations, emailAddresses,
          emailVerificationTokens>>

\* the tables outside the users and password_change_tokens tables
otherTables == <<hosts, hostGroups, userPermissions, userMemberships,
                 groupRelations, emailAddresses, emailVerificationTokens>>

NoOtherTables ==
    /\ hosts = {}
    /\ hostGroups = {}
    /\ userPermissions = {}
    /\ userMemberships = {}
    /\ groupRelations = {}
    /\ emailAddresses = {}
    /\ emailVerificationTokens = {}

NULL == "null"

\* a nullable number: None, or Some(n)
None == <<>>
Some(x) == <<x>>

\* the record of a call: what was asked, what came back, what it did on the way
Call(op, username, password, idx, result) ==
    [op |-> op, username |-> username, password |-> password, idx |-> idx,
     outcome |-> result.outcome, steps |-> result.steps]

\* before any call
NoCall == Call("none", NULL, NULL, None, [outcome |-> "none", steps |-> <<>>])

----------------------------------------------------------------------------
(* Bounds of the model *)

BaseUid == 9
MaxUid == 14
UidRange == BaseUid..MaxUid

----------------------------------------------------------------------------
(* Small helpers *)

SetMin(S) == CHOOSE x \in S : \A y \in S : x <= y
SetMax(S) == CHOOSE x \in S : \A y \in S : y <= x

----------------------------------------------------------------------------
(* The users table: a set of rows, as the columns the queries read *)

\* the name every account is created with
DisplayName == "A. User"

Row(idx, username, passwordDigest, uid, shell, activated, lastLoginAt) ==
    [idx |-> idx, username |-> username, passwordDigest |-> passwordDigest,
     name |-> DisplayName, uid |-> uid, shell |-> shell,
     activated |-> activated, lastLoginAt |-> lastLoginAt]

----------------------------------------------------------------------------
(* Users.generateUid: the gap scan *)

\* users AS a RIGHT OUTER JOIN users AS b ON a.uid = b.uid + 1: every row b,
\* paired with each row a whose uid is b.uid + 1, or with NULL when none is
RightOuterJoin(rows) ==
    {[a |-> Some(p[1].uid), b |-> p[2].uid] :
        p \in {q \in rows \X rows : q[1].uid = q[2].uid + 1}}
    \cup {[a |-> None, b |-> r.uid] :
        r \in {q \in rows : \A a \in rows : a.uid # q.uid + 1}}

\* the filter without its floor: WHERE a.uid IS NULL
GapRows_nofloor(rows, floor) ==
    {p \in RightOuterJoin(rows) : p.a = None}

\* the filter one off: WHERE a.uid IS NULL AND b.uid + 1 > $1
GapRows_strict(rows, floor) ==
    {p \in RightOuterJoin(rows) : p.a = None /\ p.b + 1 > floor}

\* WHERE a.uid IS NULL AND b.uid + 1 >= $1
GapRows(rows, floor) ==
    {p \in RightOuterJoin(rows) : p.a = None /\ p.b + 1 >= floor}

\* a scan that orders the wrong way round: ORDER BY b.uid DESC
generateUid_desc(rows, floor) ==
    LET found == GapRows(rows, floor)
    IN  IF found # {} THEN SetMax({p.b : p \in found}) + 1 ELSE floor

\* SELECT b.uid + 1 ... ORDER BY b.uid LIMIT 1, or minUid when there is no row
generateUid(rows, floor) ==
    LET found == GapRows(rows, floor)
    IN  IF found # {} THEN SetMin({p.b : p \in found}) + 1 ELSE floor

----------------------------------------------------------------------------
(* Password digests: argon2 (current) and the two mssql formats (legacy) *)

Passwords == {<<"a">>, <<"b", "a">>}
Salts == {"s1", "s2"}
LegacyIds == {"mssql-sha1", "mssql-sha512"}

\* crypto.createHash(algorithm) over the bytes fed to it: collision-free
HashOf(algorithm, bytes) == [algorithm |-> algorithm, bytes |-> bytes]

\* [...password].map(x => x + '\u0000').join(''): a null after every character
RECURSIVE nullAppended(_)
nullAppended(password) ==
    IF password = <<>> THEN <<>>
    ELSE <<Head(password), "\\0">> \o nullAppended(Tail(password))

\* argon2.hash with the salt it drew
argon2Hash(password, salt) ==
    [id |-> "argon2i", salt |-> <<salt>>,
     hash |-> HashOf("argon2i", password \o <<salt>>)]

\* argon2.verify(digest, password)
argon2Verify(digest, password) ==
    /\ digest.id = "argon2i"
    /\ digest.hash = HashOf("argon2i", password \o digest.salt)

\* crypto.createHash(phcObject.id === 'mssql-sha1' ? 'sha1' : 'sha512')
legacyAlgorithm(id) == IF id = "mssql-sha1" THEN "sha1" ELSE "sha512"

\* hash.update(nullAppendedPassword); hash.update(phcObject.salt); hash.digest()
legacyDigest(id, password, salt) ==
    HashOf(legacyAlgorithm(id), nullAppended(password) \o salt)

\* a digest as the legacy system stored it for a password
legacyStored(id, password, salt) ==
    [id |-> id, salt |-> <<salt>>,
     hash |-> HashOf(IF id = "mssql-sha1" THEN "sha1" ELSE "sha512",
                     nullAppended(password) \o <<salt>>)]

----------------------------------------------------------------------------
(* Transactions on the users table *)

NumTx == 2
MaxIdx == 3
Tx == 1..NumTx
Usernames == {"alice", "bob"}
Shells == {"/bin/bash"}

IdleTx ==
    [pc |-> "idle", lock |-> FALSE, touched |-> FALSE, ins |-> {}, del |-> {},
     username |-> NULL, passwordDigest |-> NULL, shell |-> NULL, uid |-> None,
     rows |-> <<>>]

\* what transaction t reads: the committed rows and its own writes
View(t) == {r \in users : r.idx \notin tx[t].del} \cup tx[t].ins

\* ACCESS EXCLUSIVE conflicts with every lock another transaction holds
CanLock(t) == \A o \in Tx \ {t} : ~tx[o].lock /\ ~tx[o].touched

\* a statement on users waits while another transaction holds the lock
CanTouch(t) == \A o \in Tx \ {t} : ~tx[o].lock

\* tr.ensureHasAccessExclusiveLock('users') does not throw
ensureHasAccessExclusiveLock(t) == tx[t].lock

\* generateUid without its first line
generateUidMayScan_unchecked(t) == TRUE

\* generateUid goes on to its query only when the lock check passed
generateUidMayScan(t) == ensureHasAccessExclusiveLock(t)

\* the unique constraint on users.username
UsernameTaken(rows, username) == \E r \in rows : r.username = username

\* the column default of users.activated
ActivatedDefault == TRUE

Begin(t) ==
    /\ tx[t].pc = "idle"
    /\ tx' = [tx EXCEPT ![t].pc = "open"]
    /\ UNCHANGED <<otherTables, users, nextIdx, posixAccountsCache, minUid, newUid, now,
                   lastCall, tokens, randomCounter>>

LockUsers(t) ==
    /\ tx[t].pc = "open"
    /\ ~tx[t].lock
    /\ CanLock(t)
    /\ tx' = [tx EXCEPT ![t].lock = TRUE]
    /\ UNCHANGED <<otherTables, users, nextIdx, posixAccountsCache, minUid, newUid, now,
                   lastCall, tokens, randomCounter>>

\* create, to its first await: const passwordDigest = await argon2.hash(password)
CreateHash(t, username, password, shell, salt) ==
    /\ tx[t].pc = "open"
    /\ tx' = [tx EXCEPT ![t].pc = "hashed",
                        ![t].username = username,
                        ![t].passwordDigest = argon2Hash(password, salt),
                        ![t].shell = shell]
    /\ UNCHANGED <<otherTables, users, nextIdx, posixAccountsCache, minUid, newUid, now,
                   lastCall, tokens, randomCounter>>

\* const uid = await this.generateUid(tr), the lock held
CreateGenerateUid(t) ==
    /\ tx[t].pc = "hashed"
    /\ generateUidMayScan(t)
    /\ CanTouch(t)
    /\ tx' = [tx EXCEPT ![t].pc = "scanned",
                        ![t].touched = TRUE,
                        ![t].uid = Some(generateUid(View(t), minUid))]
    /\ UNCHANGED <<otherTables, users, nextIdx, posixAccountsCache, minUid, newUid, now,
                   lastCall, tokens, randomCounter>>

\* generateUid throws for want of the lock: the transaction is rolled back
CreateGenerateUidRefused(t) ==
    /\ tx[t].pc = "hashed"
    /\ ~generateUidMayScan(t)
    /\ tx' = [tx EXCEPT ![t] = IdleTx]
    /\ UNCHANGED <<otherTables, users, nextIdx, posixAccountsCache, minUid, newUid, now,
                   lastCall, tokens, randomCounter>>

\* the INSERT, then this.posixAccountsCache = null
CreateInsert(t) ==
    /\ tx[t].pc = "scanned"
    /\ CanTouch(t)
    /\ nextIdx <= MaxIdx
    /\ ~UsernameTaken(View(t), tx[t].username)
    /\ tx' = [tx EXCEPT ![t].pc = "open",
                        ![t].touched = TRUE,
                        ![t].ins = @ \cup {Row(nextIdx, tx[t].username,
                                               tx[t].passwordDigest, tx[t].uid[1],
                                               tx[t].shell, ActivatedDefault, None)},
                        ![t].username = NULL,
                        ![t].passwordDigest = NULL,
                        ![t].shell = NULL,
                        ![t].uid = None]
    /\ nextIdx' = nextIdx + 1
    /\ posixAccountsCache' = None
    /\ UNCHANGED <<otherTables, users, minUid, newUid, now, lastCall, tokens, randomCounter>>

\* the INSERT fails on the username: the transaction is rolled back
CreateInsertRefused(t) ==
    /\ tx[t].pc = "scanned"
    /\ CanTouch(t)
    /\ UsernameTaken(View(t), tx[t].username)
    /\ tx' = [tx EXCEPT ![t] = IdleTx]
    /\ UNCHANGED <<otherTables, users, nextIdx, posixAccountsCache, minUid, newUid, now,
                   lastCall, tokens, randomCounter>>

\* delete of a row the transaction sees
DeleteInTx(t, userIdx) ==
    /\ tx[t].pc = "open"
    /\ CanTouch(t)
    /\ \E r \in View(t) : r.idx = userIdx
    /\ \A o \in Tx \ {t} : userIdx \notin tx[o].del
    /\ tx' = [tx EXCEPT ![t].touched = TRUE,
                        ![t].ins = {r \in @ : r.idx # userIdx},
                        ![t].del = @ \cup {r.idx : r \in {q \in users : q.idx = userIdx}}]
    /\ posixAccountsCache' = None
    /\ UNCHANGED <<otherTables, users, nextIdx, minUid, newUid, now, lastCall, tokens,
                   randomCounter>>

\* delete of a row that is not there: NoSuchEntryError, and the rollback
DeleteInTxNotFound(t, userIdx) ==
    /\ tx[t].pc = "open"
    /\ CanTouch(t)
    /\ ~\E r \in View(t) : r.idx = userIdx
    /\ tx' = [tx EXCEPT ![t] = IdleTx]
    /\ UNCHANGED <<otherTables, users, nextIdx, posixAccountsCache, minUid, newUid, now,
                   lastCall, tokens, randomCounter>>

Commit(t) ==
    /\ tx[t].pc = "open"
    /\ users' = View(t)
    /\ tx' = [tx EXCEPT ![t] = IdleTx]
    /\ UNCHANGED <<otherTables, nextIdx, posixAccountsCache, minUid, newUid, now, lastCall,
                   tokens, randomCounter>>

Rollback(t) ==
    /\ tx[t].pc = "open"
    /\ tx' = [tx EXCEPT ![t] = IdleTx]
    /\ UNCHANGED <<otherTables, users, nextIdx, posixAccountsCache, minUid, newUid, now,
                   lastCall, tokens, randomCounter>>

\* the tables the run may start from: some with UIDs below the floor
SeedRow(idx, username, uid) ==
    Row(idx, username, argon2Hash(<<"a">>, "s1"), uid, "/bin/bash", TRUE, None)

SeedTables ==
    { {},
      {SeedRow(1, "root", 7)},
      {SeedRow(1, "root", 9)},
      {SeedRow(1, "root", 10), SeedRow(2, "carol", 12)} }

Init ==
    /\ users \in SeedTables
    /\ nextIdx = Cardinality(users) + 1
    /\ posixAccountsCache = None
    /\ minUid = 10
    /\ newUid = None
    /\ tx = [t \in Tx |-> IdleTx]
    /\ now = 0
    /\ lastCall = NoCall
    /\ tokens = {}
    /\ randomCounter = 0
    /\ NoOtherTables

Next ==
    \E t \in Tx :
        \/ Begin(t)
        \/ LockUsers(t)
        \/ \E u \in Usernames, p \in {<<"a">>}, sh \in Shells, salt \in {"s1"} :
               CreateHash(t, u, p, sh, salt)
        \/ CreateGenerateUid(t)
        \/ CreateGenerateUidRefused(t)
        \/ CreateInsert(t)
        \/ CreateInsertRefused(t)
        \/ \E i \in 1..MaxIdx : DeleteInTx(t, i) \/ DeleteInTxNotFound(t, i)
        \/ Commit(t)
        \/ Rollback(t)

Spec == Init /\ [][Next]_vars

DistinctUids(rows) ==
    \A r1 \in rows, r2 \in rows : r1.idx # r2.idx => r1.uid # r2.uid

\* C1: under any sequence of creates and deletes, no two accounts that exist
\* at the same time (committed, or as a transaction sees them) share a UID, and
\* every UID generateUid hands out is at least config.posix.minUid.
C1_UniqueUidsAboveFloor ==
    /\ DistinctUids(users)
    /\ \A t \in Tx : DistinctUids(View(t))
    /\ \A t \in Tx : tx[t].uid # None => tx[t].uid[1] >= minUid
    /\ \A t \in Tx : \A r \in tx[t].ins : r.uid >= minUid

\* two created accounts exist together after a seeded account was deleted
C1_Witness ==
    /\ \E r1 \in users, r2 \in users :
          r1.username = "alice" /\ r2.username = "bob"
    /\ \A r \in users : r.username # "root"
    /\ nextIdx = 4

\* a transaction is in its create from the scan until it ends
InCreate(t) == tx[t].pc = "scanned" \/ tx[t].ins # {}

UidsHeld(t) ==
    {r.uid : r \in tx[t].ins}
    \cup (IF tx[t].uid # None THEN {tx[t].uid[1]} ELSE {})

\* C2: under every interleaving of concurrent create transactions the scan
\* runs only in a transaction holding the exclusive lock, which it keeps until
\* it ends; no two transactions are between their scan and their end at the
\* same time, and no two of them hold the same UID.
C2_CreatesSerialized ==
    /\ \A t \in Tx : InCreate(t) => tx[t].lock
    /\ \A t1 \in Tx, t2 \in Tx :
          t1 # t2 => /\ ~(InCreate(t1) /\ InCreate(t2))
                     /\ UidsHeld(t1) \cap UidsHeld(t2) = {}

\* one transaction has scanned under the lock while another is in its create
C2_Witness ==
    \E t1 \in Tx, t2 \in Tx :
        /\ tx[t1].pc = "scanned" /\ tx[t1].lock
        /\ tx[t2].pc = "hashed" /\ ~tx[t2].lock
        /\ \E r \in users : r.uid = tx[t1].uid[1] - 1

----------------------------------------------------------------------------
(* Users.authenticate, changePassword, activate, deactivate *)

MaxTime == 1

\* SELECT idx, password_digest, activated FROM users WHERE username = $1
selectByUsername(rows, username) == {r \in rows : r.username = username}

\* an authenticate that never looks at the activated column
isActivated_unchecked(row) == TRUE

\* result.rows[0].activated
isActivated(row) == row.activated

\* ['mssql-sha1', 'mssql-sha512'].includes(phcObject.id)
isLegacy(phcObject) == phcObject.id \in LegacyIds

\* a comparison that hashes with sha1 whatever the tag says
legacyMatches_sha1(phcObject, password) ==
    HashOf("sha1", nullAppended(password) \o phcObject.salt) = phcObject.hash

\* hash.digest().equals(phcObject.hash)
legacyMatches(phcObject, password) ==
    legacyDigest(phcObject.id, password, phcObject.salt) = phcObject.hash

\* a changePassword that finds the row and writes nothing
changePassword_nowrite(rows, userIdx, newPassword, salt) ==
    IF \E r \in rows : r.idx = userIdx
    THEN [outcome |-> "ok", rows |-> rows]
    ELSE [outcome |-> "NoSuchEntryError", rows |-> rows]

\* UPDATE users SET password_digest = $1 WHERE idx = $2 RETURNING idx
changePassword(rows, userIdx, newPassword, salt) ==
    IF \E r \in rows : r.idx = userIdx
    THEN [outcome |-> "ok",
          rows |-> {IF r.idx = userIdx
                    THEN [r EXCEPT !.passwordDigest = argon2Hash(newPassword, salt)]
                    ELSE r : r \in rows}]
    ELSE [outcome |-> "NoSuchEntryError", rows |-> rows]

\* UPDATE users SET last_login_at = NOW() WHERE idx = $1
updateLastLoginAt(rows, userIdx, time) ==
    {IF r.idx = userIdx THEN [r EXCEPT !.lastLoginAt = Some(time)] ELSE r : r \in rows}

\* UPDATE users SET activated = $value WHERE idx = $1
setActivated(rows, userIdx, value) ==
    {IF r.idx = userIdx THEN [r EXCEPT !.activated = value] ELSE r : r \in rows}

AuthResult(outcome, idx, rows, steps) ==
    [outcome |-> outcome, idx |-> idx, rows |-> rows, steps |-> steps]

\* authenticate: what it returns or throws, the table it leaves, and the
\* calls it made on the way; salt is what argon2.hash draws when it migrates
authenticate(rows, username, password, salt, time) ==
    LET result == selectByUsername(rows, username)
    IN  IF result = {}
        THEN AuthResult("NoSuchEntryError", None, rows, <<"select">>)
        ELSE
        LET row == CHOOSE r \in result : TRUE
            phcObject == row.passwordDigest
        IN  IF ~isActivated(row)
            THEN AuthResult("NotActivatedError", None, rows, <<"select">>)
            ELSE IF isLegacy(phcObject)
            THEN IF ~legacyMatches(phcObject, password)
                 THEN AuthResult("AuthenticationError", None, rows,
                                 <<"select", "createHash">>)
                 ELSE LET changed == changePassword(rows, row.idx, password, salt)
                      IN  AuthResult("ok", Some(row.idx),
                                     updateLastLoginAt(changed.rows, row.idx, time),
                                     <<"select", "createHash", "changePassword",
                                       "updateLastLoginAt">>)
            ELSE IF ~argon2Verify(phcObject, password)
                 THEN AuthResult("AuthenticationError", None, rows,
                                 <<"select", "argon2.verify">>)
                 ELSE AuthResult("ok", Some(row.idx),
                                 updateLastLoginAt(rows, row.idx, time),
                                 <<"select", "argon2.verify", "updateLastLoginAt">>)

Authenticate(username, password, salt) ==
    LET r == authenticate(users, username, password, salt, now)
    IN  /\ users' = r.rows
        /\ lastCall' = Call("authenticate", username, password, r.idx, r)
        /\ UNCHANGED <<otherTables, nextIdx, posixAccountsCache, minUid, newUid, tx, now,
                       tokens, randomCounter>>

ChangePassword(userIdx, newPassword, salt) ==
    LET r == changePassword(users, userIdx, newPassword, salt)
    IN  /\ users' = r.rows
        /\ lastCall' = Call("changePassword", NULL, newPassword, Some(userIdx),
                            [outcome |-> r.outcome, steps |-> <<"update">>])
        /\ UNCHANGED <<otherTables, nextIdx, posixAccountsCache, minUid, newUid, tx, now,
                       tokens, randomCounter>>

Activate(userIdx) ==
    /\ users' = setActivated(users, userIdx, TRUE)
    /\ lastCall' = Call("activate", NULL, NULL, Some(userIdx),
                        [outcome |-> "ok", steps |-> <<"update">>])
    /\ UNCHANGED <<otherTables, nextIdx, posixAccountsCache, minUid, newUid, tx, now,
                   tokens, randomCounter>>

Deactivate(userIdx) ==
    /\ users' = setActivated(users, userIdx, FALSE)
    /\ lastCall' = Call("deactivate", NULL, NULL, Some(userIdx),
                        [outcome |-> "ok", steps |-> <<"update">>])
    /\ UNCHANGED <<otherTables, nextIdx, posixAccountsCache, minUid, newUid, tx, now,
                   tokens, randomCounter>>

\* create in a transaction of its own that locks users and commits
CreateAccount(username, password, shell, salt) ==
    /\ nextIdx <= MaxIdx
    /\ ~UsernameTaken(users, username)
    /\ users' = users \cup {Row(nextIdx, username, argon2Hash(password, salt),
                                generateUid(users, minUid), shell,
                                ActivatedDefault, None)}
    /\ nextIdx' = nextIdx + 1
    /\ posixAccountsCache' = None
    /\ lastCall' = Call("create", username, password, Some(nextIdx),
                        [outcome |-> "ok", steps |-> <<"hash", "scan", "insert">>])
    /\ UNCHANGED <<otherTables, minUid, newUid, tx, now, tokens, randomCounter>>

\* delete in a transaction of its own that commits
DeleteAccount(userIdx) ==
    /\ \E r \in users : r.idx = userIdx
    /\ users' = {r \in users : r.idx # userIdx}
    /\ posixAccountsCache' = None
    /\ lastCall' = Call("delete", NULL, NULL, Some(userIdx),
                        [outcome |-> "ok", steps |-> <<"delete">>])
    /\ UNCHANGED <<otherTables, nextIdx, minUid, newUid, tx, now, tokens, randomCounter>>

Tick ==
    /\ now < MaxTime
    /\ now' = now + 1
    /\ UNCHANGED <<otherTables, users, nextIdx, posixAccountsCache, minUid, newUid, tx,
                   lastCall, tokens, randomCounter>>

\* the digests an account may start with: the current format or a legacy one
SeedDigests ==
    {argon2Hash(<<"a">>, "s1")}
    \cup {legacyStored(id, <<"b", "a">>, "s1") : id \in LegacyIds}

InitAuth ==
    /\ \E d \in SeedDigests, a \in BOOLEAN :
          users = {Row(1, "alice", d, 10, "/bin/bash", a, None)}
    /\ nextIdx = 2
    /\ posixAccountsCache = None
    /\ minUid = 10
    /\ newUid = None
    /\ tx = <<>>
    /\ now = 0
    /\ lastCall = NoCall
    /\ tokens = {}
    /\ randomCounter = 0
    /\ NoOtherTables

NextAuth ==
    \/ \E u \in Usernames, p \in Passwords, salt \in Salts : Authenticate(u, p, salt)
    \/ \E i \in 1..MaxIdx, p \in Passwords, salt \in Salts : ChangePassword(i, p, salt)
    \/ \E i \in 1..MaxIdx : Activate(i) \/ Deactivate(i)
    \/ \E u \in Usernames, p \in Passwords, sh \in Shells, salt \in Salts :
          CreateAccount(u, p, sh, salt)
    \/ \E i \in 1..MaxIdx : DeleteAccount(i)
    \/ Tick

SpecAuth == InitAuth /\ [][NextAuth]_vars

\* the step is a call of authenticate (the clock stands still in a call)
AuthStep == lastCall'.op = "authenticate" /\ now' = now

\* the digest was made from this password, in any of the three formats
MadeFrom(digest, password) ==
    \/ \E s \in Salts : digest = argon2Hash(password, s)
    \/ \E id \in LegacyIds, s \in Salts : digest = legacyStored(id, password, s)

VerificationSteps == {"createHash", "argon2.verify", "changePassword", "updateLastLoginAt"}

StepsOf(call) == {call.steps[i] : i \in 1..Len(call.steps)}

\* C5: authenticate on an existing but deactivated account fails with
\* NotActivated whatever the password, never with AuthenticationError, and
\* does no digest comparison, no migration and no lastLoginAt update.
C5_DeactivatedBeforeDigest ==
    [][(AuthStep /\ \E r \in users : r.username = lastCall'.username /\ ~r.activated)
         => /\ lastCall'.outcome = "NotActivatedError"
            /\ StepsOf(lastCall') \cap VerificationSteps = {}
            /\ users' = users]_vars

\* a deactivated legacy account was refused although the password was right
C5_Witness ==
    /\ lastCall.op = "authenticate"
    /\ lastCall.outcome = "NotActivatedError"
    /\ \E r \in users :
          /\ r.username = lastCall.username
          /\ ~r.activated
          /\ r.passwordDigest.id \in LegacyIds
          /\ MadeFrom(r.passwordDigest, lastCall.password)

\* C6: authenticate returns the idx and sets lastLoginAt exactly when the
\* username exists, the account is activated and the password is the one the
\* stored digest was made from; every failure leaves each account's
\* passwordDigest and lastLoginAt as they were.
C6_SuccessIffVerified ==
    [][AuthStep =>
        LET match == {r \in users : r.username = lastCall'.username}
            ok == lastCall'.outcome = "ok"
        IN  /\ ok <=> \E r \in match :
                          r.activated /\ MadeFrom(r.passwordDigest, lastCall'.password)
            /\ ok => \E r \in match :
                        /\ lastCall'.idx = Some(r.idx)
                        /\ \E q \in users' : q.idx = r.idx /\ q.lastLoginAt = Some(now)
            /\ ~ok => /\ lastCall'.idx = None
                      /\ lastCall'.outcome =
                             IF match = {} THEN "NoSuchEntryError"
                             ELSE IF \E r \in match : ~r.activated
                                  THEN "NotActivatedError"
                                  ELSE "AuthenticationError"
                      /\ \A r \in users : \E q \in users' :
                             /\ q.idx = r.idx
                             /\ q.passwordDigest = r.passwordDigest
                             /\ q.lastLoginAt = r.lastLoginAt]_vars

\* a login succeeded at time 1 and stamped the account with it
C6_Witness ==
    /\ lastCall.op = "authenticate"
    /\ lastCall.outcome = "ok"
    /\ now = 1
    /\ \E r \in users : lastCall.idx = Some(r.idx) /\ r.lastLoginAt = Some(1)

\* C7: a successful authenticate against a legacy digest leaves a current
\* digest of the same password, and the next authenticate with it succeeds
\* through argon2.verify; a failed legacy verification leaves the legacy
\* digest; no step turns a current digest into a legacy one.
C7_MigrationOneWay ==
    [][/\ AuthStep =>
            \A r \in users :
                (r.username = lastCall'.username /\ r.passwordDigest.id \in LegacyIds)
                => \E q \in users' :
                      /\ q.idx = r.idx
                      /\ IF lastCall'.outcome = "ok"
                         THEN /\ q.passwordDigest.id = "argon2i"
                              /\ argon2Verify(q.passwordDigest, lastCall'.password)
                         ELSE q.passwordDigest = r.passwordDigest
       /\ (/\ AuthStep
           /\ lastCall.op = "authenticate" /\ lastCall.outcome = "ok"
           /\ lastCall'.username = lastCall.username
           /\ lastCall'.password = lastCall.password)
            => /\ lastCall'.outcome = "ok"
               /\ "argon2.verify" \in StepsOf(lastCall')
               /\ "createHash" \notin StepsOf(lastCall')
       /\ \A r \in users, q \in users' :
            (q.idx = r.idx /\ r.passwordDigest.id \notin LegacyIds)
            => q.passwordDigest.id \notin LegacyIds
       /\ \A q \in users' :
            (\A r \in users : r.idx # q.idx) => q.passwordDigest.id \notin LegacyIds
      ]_vars

\* the last call migrated a legacy digest: it hashed the legacy way, and the
\* account now holds a current digest
C7_Witness ==
    /\ lastCall.op = "authenticate"
    /\ lastCall.outcome = "ok"
    /\ "changePassword" \in StepsOf(lastCall)
    /\ \E r \in users :
          /\ lastCall.idx = Some(r.idx)
          /\ r.passwordDigest.id = "argon2i"
          /\ argon2Verify(r.passwordDigest, <<"b", "a">>)

----------------------------------------------------------------------------
(* Password-change tokens *)

MaxClock == 3
MaxTokens == 3

\* moment().add(1, 'day'), in ticks of the clock
OneDay == 2

\* the column default of password_change_tokens.resend_count
ResendCountDefault == 0

TokenRow(userIdx, token, expires, resendCount) ==
    [userIdx |-> userIdx, token |-> token, expires |-> expires,
     resendCount |-> resendCount]

\* a reset that does not look at the expiry
resetResendCountIfExpired_always(rows, userIdx, dbNow) ==
    {IF r.userIdx = userIdx THEN [r EXCEPT !.resendCount = 0] ELSE r : r \in rows}

\* a reset that misses the instant of expiry: expires < now()
resetResendCountIfExpired_strict(rows, userIdx, dbNow) ==
    {IF r.userIdx = userIdx /\ r.expires < dbNow
     THEN [r EXCEPT !.resendCount = 0] ELSE r : r \in rows}

\* UPDATE ... SET resend_count = 0 WHERE user_idx = $1 AND expires <= now()
resetResendCountIfExpired(rows, userIdx, dbNow) ==
    {IF r.userIdx = userIdx /\ r.expires <= dbNow
     THEN [r EXCEPT !.resendCount = 0] ELSE r : r \in rows}

\* an upsert whose DO UPDATE leaves the token column as it was
upsertToken_keepToken(rows, userIdx, token, expires) ==
    IF \E r \in rows : r.userIdx = userIdx
    THEN {IF r.userIdx = userIdx
          THEN TokenRow(userIdx, r.token, expires, r.resendCount + 1)
          ELSE r : r \in rows}
    ELSE rows \cup {TokenRow(userIdx, token, expires, ResendCountDefault)}

\* INSERT ... ON CONFLICT (user_idx) DO UPDATE SET token = $2,
\* resend_count = p.resend_count + 1, expires = $3
upsertToken(rows, userIdx, token, expires) ==
    IF \E r \in rows : r.userIdx = userIdx
    THEN {IF r.userIdx = userIdx
          THEN TokenRow(userIdx, token, expires, r.resendCount + 1)
          ELSE r : r \in rows}
    ELSE rows \cup {TokenRow(userIdx, token, expires, ResendCountDefault)}

\* generatePasswordChangeToken: dbNow is the now() of the transaction, token
\* the 32 random bytes, clock what moment() reads
generatePasswordChangeToken(rows, userIdx, dbNow, token, clock) ==
    upsertToken(resetResendCountIfExpired(rows, userIdx, dbNow), userIdx, token,
                clock + OneDay)

\* SELECT ... FROM password_change_tokens WHERE token = $1
selectByToken(rows, token) == {r \in rows : r.token = token}

\* a comparison that lets the token live through the instant of its expiry
isSameOrAfter_after(clock, expires) == clock > expires

\* moment().isSameOrAfter(expires)
isSameOrAfter(clock, expires) == clock >= expires

ensureTokenNotExpired(rows, token, clock) ==
    LET result == selectByToken(rows, token)
    IN  IF result = {} THEN "NoSuchEntryError"
        ELSE IF isSameOrAfter(clock, (CHOOSE r \in result : TRUE).expires)
             THEN "ExpiredTokenError"
             ELSE "ok"

TokenCall(op, userIdx, token, dbNow, prior, outcome, value) ==
    [op |-> op, userIdx |-> userIdx, token |-> token, dbNow |-> dbNow,
     prior |-> prior, outcome |-> outcome, value |-> value]

\* the users the token rows may reference
TokenUsers == {r.idx : r \in users}

\* the random bytes never repeat: each draw is a token not seen before
GeneratePasswordChangeToken(userIdx, dbNow) ==
    /\ randomCounter < MaxTokens
    /\ randomCounter' = randomCounter + 1
    /\ tokens' = generatePasswordChangeToken(tokens, userIdx, dbNow,
                                              randomCounter + 1, now)
    /\ lastCall' = TokenCall("generatePasswordChangeToken", userIdx,
                             randomCounter + 1, dbNow,
                             {r.resendCount : r \in {q \in tokens : q.userIdx = userIdx}},
                             "ok", None)
    /\ UNCHANGED <<otherTables, users, nextIdx, posixAccountsCache, minUid, newUid, tx, now>>

ResetResendCountIfExpired(userIdx, dbNow) ==
    /\ tokens' = resetResendCountIfExpired(tokens, userIdx, dbNow)
    /\ lastCall' = TokenCall("resetResendCountIfExpired", userIdx, None, dbNow,
                             {r.resendCount : r \in {q \in tokens : q.userIdx = userIdx}},
                             "ok", None)
    /\ UNCHANGED <<otherTables, users, nextIdx, posixAccountsCache, minUid, newUid, tx, now,
                   randomCounter>>

EnsureTokenNotExpired(token) ==
    /\ lastCall' = TokenCall("ensureTokenNotExpired", None, token, None, {},
                             ensureTokenNotExpired(tokens, token, now), None)
    /\ UNCHANGED <<otherTables, users, nextIdx, posixAccountsCache, minUid, newUid, tx, now,
                   tokens, randomCounter>>

\* DELETE FROM password_change_tokens WHERE token = $1 RETURNING idx
RemoveToken(token) ==
    /\ tokens' = tokens \ selectByToken(tokens, token)
    /\ lastCall' = TokenCall("removeToken", None, token, None, {},
                             IF selectByToken(tokens, token) = {}
                             THEN "NoSuchEntryError" ELSE "ok", None)
    /\ UNCHANGED <<otherTables, users, nextIdx, posixAccountsCache, minUid, newUid, tx, now,
                   randomCounter>>

GetResendCount(token) ==
    /\ lastCall' = LET result == selectByToken(tokens, token)
                   IN  IF result = {}
                       THEN TokenCall("getResendCount", None, token, None, {},
                                      "NoSuchEntryError", None)
                       ELSE TokenCall("getResendCount", None, token, None, {}, "ok",
                                      Some((CHOOSE r \in result : TRUE).resendCount))
    /\ UNCHANGED <<otherTables, users, nextIdx, posixAccountsCache, minUid, newUid, tx, now,
                   tokens, randomCounter>>

GetUserIdxByPasswordToken(token) ==
    /\ lastCall' = LET result == selectByToken(tokens, token)
                   IN  IF result = {}
                       THEN TokenCall("getUserIdxByPasswordToken", None, token, None,
                                      {}, "NoSuchEntryError", None)
                       ELSE TokenCall("getUserIdxByPasswordToken", None, token, None,
                                      {}, "ok",
                                      Some((CHOOSE r \in result : TRUE).userIdx))
    /\ UNCHANGED <<otherTables, users, nextIdx, posixAccountsCache, minUid, newUid, tx, now,
                   tokens, randomCounter>>

TickToken ==
    /\ now < MaxClock
    /\ now' = now + 1
    /\ UNCHANGED <<otherTables, users, nextIdx, posixAccountsCache, minUid, newUid, tx,
                   lastCall, tokens, randomCounter>>

InitToken ==
    /\ users = {SeedRow(1, "alice", 10), SeedRow(2, "bob", 11)}
    /\ nextIdx = 3
    /\ posixAccountsCache = None
    /\ minUid = 10
    /\ newUid = None
    /\ tx = <<>>
    /\ now = 0
    /\ lastCall = NoCall
    /\ tokens = {}
    /\ randomCounter = 0
    /\ NoOtherTables

\* now() is the time the transaction began: at or before the clock
NextToken ==
    \/ \E i \in TokenUsers, dbNow \in 0..now : GeneratePasswordChangeToken(i, dbNow)
    \/ \E i \in TokenUsers, dbNow \in 0..now : ResetResendCountIfExpired(i, dbNow)
    \/ \E t \in 1..MaxTokens : EnsureTokenNotExpired(t)
    \/ \E t \in 1..MaxTokens : RemoveToken(t)
    \/ \E t \in 1..MaxTokens : GetResendCount(t)
    \/ \E t \in 1..MaxTokens : GetUserIdxByPasswordToken(t)
    \/ TickToken

SpecToken == InitToken /\ [][NextToken]_vars

\* the step is a call of generatePasswordChangeToken (each draws a new token)
GenerateStep ==
    lastCall'.op = "generatePasswordChangeToken" /\ lastCall' # lastCall

\* the step is a call of ensureTokenNotExpired (the clock stands still in it)
EnsureStep == lastCall'.op = "ensureTokenNotExpired" /\ now' = now

\* C8: a generatePasswordChangeToken issued while the user's token has not
\* expired raises the row's resendCount by exactly one, and no step lowers the
\* resendCount of a row whose token has not expired.
C8_UnexpiredCountsUp ==
    [][/\ GenerateStep =>
            \A r \in tokens :
                (r.userIdx = lastCall'.userIdx /\ now < r.expires)
                => \E q \in tokens' :
                      q.userIdx = r.userIdx /\ q.resendCount = r.resendCount + 1
       /\ \A r \in tokens, q \in tokens' :
            (q.userIdx = r.userIdx /\ now < r.expires)
            => q.resendCount >= r.resendCount
      ]_vars

\* a second reissue before expiry: the count went from 1 to 2
C8_Witness ==
    /\ lastCall.op = "generatePasswordChangeToken"
    /\ lastCall.prior = {1}
    /\ \E r \in tokens :
          /\ r.userIdx = lastCall.userIdx
          /\ r.token = lastCall.token
          /\ r.resendCount = 2
          /\ r.expires = now + OneDay
          /\ now < OneDay

\* C9 as stated: after a reissue of an expired token the resendCount is 0
C9_ExpiredLeavesZero ==
    [][GenerateStep =>
        \A r \in tokens :
            (r.userIdx = lastCall'.userIdx /\ r.expires <= now)
            => \E q \in tokens' : q.userIdx = r.userIdx /\ q.resendCount = 0]_vars

\* C9 as amended: when the user's token has expired by the now() of the
\* transaction, generatePasswordChangeToken resets resendCount to 0 and its
\* upsert then adds one: the count right after the call is 1, whatever it was.
C9_ExpiredRestartsAtOne ==
    [][GenerateStep =>
        \A r \in tokens :
            (r.userIdx = lastCall'.userIdx /\ r.expires <= lastCall'.dbNow)
            => \E q \in tokens' : q.userIdx = r.userIdx /\ q.resendCount = 1]_vars

\* a token with resendCount 1 was reissued at the instant it expired
C9_Witness ==
    /\ lastCall.op = "generatePasswordChangeToken"
    /\ lastCall.prior = {1}
    /\ lastCall.dbNow = now
    /\ now = OneDay
    /\ \E r \in tokens :
          /\ r.userIdx = lastCall.userIdx
          /\ r.token = lastCall.token
          /\ r.resendCount = 1

\* C10: a token issued at time t gets expires = t + 1 day; ensureTokenNotExpired
\* passes for it strictly before expires, fails with ExpiredToken from expires
\* on, and fails with NoSuchEntry for a token that has no row.
C10_ExpiryWindow ==
    [][/\ GenerateStep =>
            \E q \in tokens' :
                /\ q.userIdx = lastCall'.userIdx
                /\ q.token = lastCall'.token
                /\ q.expires = now + OneDay
       /\ EnsureStep =>
            LET held == {r \in tokens : r.token = lastCall'.token}
            IN  /\ held = {} => lastCall'.outcome = "NoSuchEntryError"
                /\ \A r \in held :
                      lastCall'.outcome =
                          IF now < r.expires THEN "ok" ELSE "ExpiredTokenError"
      ]_vars

\* a token was refused at the very instant of its expiry
C10_Witness ==
    /\ lastCall.op = "ensureTokenNotExpired"
    /\ lastCall.outcome = "ExpiredTokenError"
    /\ \E r \in tokens : r.token = lastCall.token /\ r.expires = now

----------------------------------------------------------------------------
(* SpecUid: generateUid over every table of UIDs and every floor *)

UidOnlyRow(u) == Row(u, NULL, NULL, u, "/bin/bash", TRUE, None)

Quiet ==
    /\ nextIdx = 1
    /\ posixAccountsCache = None
    /\ tx = <<>>
    /\ now = 0
    /\ lastCall = NoCall
    /\ tokens = {}
    /\ randomCounter = 0
    /\ NoOtherTables

InitUid ==
    /\ \E S \in SUBSET UidRange : users = {UidOnlyRow(u) : u \in S}
    /\ minUid \in UidRange
    /\ newUid = None
    /\ Quiet

GenerateUidCall ==
    /\ newUid = None
    /\ newUid' = Some(generateUid(users, minUid))
    /\ UNCHANGED <<otherTables, users, nextIdx, posixAccountsCache, minUid, tx, now,
                   lastCall, tokens, randomCounter>>

NextUid == GenerateUidCall

SpecUid == InitUid /\ [][NextUid]_vars

Uids == {r.uid : r \in users}

\* C3: generateUid returns the smallest v >= floor whose predecessor is an
\* existing UID and which is not itself an existing UID; it returns the floor
\* when there is no such v, and in particular when no UID >= floor exists.
C3_GapScan ==
    newUid # None =>
        LET cand == {v \in minUid..(MaxUid + 1) : (v - 1) \in Uids /\ v \notin Uids}
        IN  /\ cand # {} => newUid[1] = SetMin(cand)
            /\ cand = {} => newUid[1] = minUid
            /\ (\A u \in Uids : u < minUid) => newUid[1] = minUid

\* the spec's example: UIDs {10,11,13} and floor 10 give 12
C3_Witness ==
    /\ Uids = {10, 11, 13}
    /\ minUid = 10
    /\ newUid = Some(12)

FreeFrom(floor) == {v \in floor..(MaxUid + 1) : v \notin Uids}

\* C4 as stated: generateUid returns the smallest unused integer >= floor
C4_SmallestFree ==
    newUid # None => newUid[1] = SetMin(FreeFrom(minUid))

\* C4 as amended: the result is an unused integer >= floor, and it is the
\* smallest one exactly when the floor is in use, or floor - 1 is in use, or
\* no UID >= floor exists; otherwise (floor and floor - 1 unused, some larger
\* UID in use) it is the successor of the first run of UIDs above the floor.
C4_FreeButNotSmallest ==
    newUid # None =>
        /\ newUid[1] \in FreeFrom(minUid)
        /\ (newUid[1] = SetMin(FreeFrom(minUid)))
             <=> \/ minUid \in Uids
                 \/ (minUid - 1) \in Uids
                 \/ \A u \in Uids : u < minUid
        /\ newUid[1] # minUid => (newUid[1] - 1) \in Uids

\* the floor is free, UIDs above it exist, and the floor is not returned
C4_Witness ==
    /\ newUid # None
    /\ minUid \notin Uids
    /\ \E u \in Uids : u > minUid
    /\ newUid[1] > minUid

----------------------------------------------------------------------------
(* The directory projection: users as posixAccount entries *)

\* model.config.ldap and model.config.posix
usersDN == "ou=users,dc=example"
homeDirectoryPrefix == "/home"
userGroupGid == 100
posixAccountObjectClass == "posixAccount"

\* rowToUser, over the columns getAll selects
rowToUser(row) ==
    [idx |-> row.idx, username |-> row.username, name |-> row.name,
     uid |-> row.uid, shell |-> row.shell]

\* SELECT idx, username, name, uid, shell FROM users, read in the order of idx
RECURSIVE getAll(_)
getAll(rows) ==
    IF rows = {} THEN <<>>
    ELSE LET first == CHOOSE r \in rows : \A q \in rows : r.idx <= q.idx
         IN  <<rowToUser(first)>> \o getAll(rows \ {first})

userToPosixAccount(user) ==
    IF user.username = NULL \/ user.shell = NULL
    THEN [outcome |-> "Error", value |-> NULL]
    ELSE [outcome |-> "ok",
          value |->
            [dn |-> "cn=" \o user.username \o "," \o usersDN,
             attributes |->
               [uid |-> user.username,
                cn |-> user.username,
                gecos |-> user.name,
                homeDirectory |-> homeDirectoryPrefix \o "/" \o user.username,
                loginShell |-> user.shell,
                objectClass |-> posixAccountObjectClass,
                uidNumber |-> user.uid,
                gidNumber |-> userGroupGid]]]

\* users.forEach(user => { try { push(userToPosixAccount(user)) } catch {} }):
\* with caught = FALSE the first throw leaves the loop and the call
RECURSIVE forEachPush(_, _)
forEachPush(us, caught) ==
    IF us = <<>> THEN [outcome |-> "ok", value |-> <<>>]
    ELSE LET r == userToPosixAccount(Head(us))
             rest == forEachPush(Tail(us), caught)
         IN  IF r.outcome = "Error"
             THEN IF caught THEN rest ELSE [outcome |-> "Error", value |-> NULL]
             ELSE IF rest.outcome = "Error" THEN rest
             ELSE [outcome |-> "ok", value |-> <<r.value>> \o rest.value]

usersToPosixAccounts_uncaught(us) == forEachPush(us, FALSE)

usersToPosixAccounts(us) == forEachPush(us, TRUE)

\* the entries a sequence holds
Entries(seq) == {seq[i] : i \in 1..Len(seq)}

----------------------------------------------------------------------------
(* SpecCache: the directory cache under concurrent transactions *)

LoginShells == {"/bin/bash", "/bin/zsh"}

\* the record of a cache call: prev is what the read just before it returned
CacheCall(op, idx, shell, outcome, value, prev) ==
    [op |-> op, idx |-> idx, shell |-> shell, outcome |-> outcome,
     value |-> value, prev |-> prev]

\* UPDATE users SET shell = $1 WHERE idx = $2 RETURNING idx, over a set of rows
updateShell(rows, userIdx, shell) ==
    {IF r.idx = userIdx THEN [r EXCEPT !.shell = shell] ELSE r : r \in rows}

\* changeShell of a row the transaction sees: the UPDATE, then
\* this.posixAccountsCache = null
ChangeShellInTx(t, userIdx, shell) ==
    /\ tx[t].pc = "open"
    /\ CanTouch(t)
    /\ \E r \in View(t) : r.idx = userIdx
    /\ \A o \in Tx \ {t} : userIdx \notin tx[o].del
    /\ tx' = [tx EXCEPT ![t].touched = TRUE,
                        ![t].ins = {r \in @ : r.idx # userIdx} \cup
                                   updateShell({r \in View(t) : r.idx = userIdx},
                                               userIdx, shell),
                        ![t].del = @ \cup {r.idx : r \in {q \in users : q.idx = userIdx}}]
    /\ posixAccountsCache' = None
    /\ lastCall' = CacheCall("changeShell", Some(userIdx), shell, "ok", None,
                             IF lastCall.op = "getAllAsPosixAccounts"
                             THEN lastCall.value ELSE None)
    /\ UNCHANGED <<otherTables, users, nextIdx, minUid, newUid, now, tokens,
                   randomCounter>>

\* changeShell of a row that is not there: NoSuchEntryError, and the rollback
ChangeShellInTxNotFound(t, userIdx, shell) ==
    /\ tx[t].pc = "open"
    /\ CanTouch(t)
    /\ ~\E r \in View(t) : r.idx = userIdx
    /\ tx' = [tx EXCEPT ![t] = IdleTx]
    /\ lastCall' = CacheCall("changeShell", Some(userIdx), shell,
                             "NoSuchEntryError", None, None)
    /\ UNCHANGED <<otherTables, users, nextIdx, posixAccountsCache, minUid, newUid,
                   now, tokens, randomCounter>>

\* getAllAsPosixAccounts with the cache filled: return this.posixAccountsCache
GetAllAsPosixAccountsCached(t) ==
    /\ tx[t].pc = "open"
    /\ posixAccountsCache # None
    /\ lastCall' = CacheCall("getAllAsPosixAccounts", None, NULL, "ok",
                             posixAccountsCache, None)
    /\ UNCHANGED <<otherTables, users, nextIdx, posixAccountsCache, minUid, newUid,
                   tx, now, tokens, randomCounter>>

\* getAllAsPosixAccounts with the cache null, to its await of this.getAll(tr)
GetAllAsPosixAccountsMiss(t) ==
    /\ tx[t].pc = "open"
    /\ posixAccountsCache = None
    /\ tx' = [tx EXCEPT ![t].pc = "getAll"]
    /\ UNCHANGED <<otherTables, users, nextIdx, posixAccountsCache, minUid, newUid,
                   now, lastCall, tokens, randomCounter>>

\* the database runs the SELECT of getAll
GetAllQuery(t) ==
    /\ tx[t].pc = "getAll"
    /\ CanTouch(t)
    /\ tx' = [tx EXCEPT ![t].pc = "gotAll",
                        ![t].touched = TRUE,
                        ![t].rows = getAll(View(t))]
    /\ UNCHANGED <<otherTables, users, nextIdx, posixAccountsCache, minUid, newUid,
                   now, lastCall, tokens, randomCounter>>

\* the await returns: this.posixAccountsCache = this.usersToPosixAccounts(...),
\* and return this.posixAccountsCache
GetAllAsPosixAccountsStore(t) ==
    /\ tx[t].pc = "gotAll"
    /\ posixAccountsCache' = Some(usersToPosixAccounts(tx[t].rows).value)
    /\ lastCall' = CacheCall("getAllAsPosixAccounts", None, NULL, "ok",
                             posixAccountsCache', None)
    /\ tx' = [tx EXCEPT ![t].pc = "open", ![t].rows = <<>>]
    /\ UNCHANGED <<otherTables, users, nextIdx, minUid, newUid, now, tokens,
                   randomCounter>>

InitCache ==
    /\ users = {SeedRow(1, "alice", 10), SeedRow(2, "bob", 11)}
    /\ nextIdx = 3
    /\ posixAccountsCache = None
    /\ minUid = 10
    /\ newUid = None
    /\ tx = [t \in Tx |-> IdleTx]
    /\ now = 0
    /\ lastCall = NoCall
    /\ tokens = {}
    /\ randomCounter = 0
    /\ NoOtherTables

NextCache ==
    \E t \in Tx :
        \/ Begin(t)
        \/ \E i \in 1..MaxIdx : DeleteInTx(t, i) \/ DeleteInTxNotFound(t, i)
        \/ \E i \in 1..MaxIdx, sh \in LoginShells :
               ChangeShellInTx(t, i, sh) \/ ChangeShellInTxNotFound(t, i, sh)
        \/ GetAllAsPosixAccountsCached(t)
        \/ GetAllAsPosixAccountsMiss(t)
        \/ GetAllQuery(t)
        \/ GetAllAsPosixAccountsStore(t)
        \/ Commit(t)
        \/ Rollback(t)

SpecCache == InitCache /\ [][NextCache]_vars

\* the directory built from the committed table
Directory(rows) == Entries(usersToPosixAccounts(getAll(rows)).value)

\* C11: whenever the cache is populated, what a read through
\* getAllAsPosixAccounts returns from it is the projection of the committed
\* users table: there is no window in which the cache holds older data.
C11_CacheIsCommittedProjection ==
    posixAccountsCache # None =>
        Entries(posixAccountsCache[1]) = Directory(users)

\* the step in which transaction t's rebuild stores its result
StoreStep(t) == tx[t].pc = "gotAll" /\ tx'[t].pc = "open"

\* C12: a rebuild suspended at its await of getAll never stores a result that
\* a mutation invalidated in the meantime: what it stores is the projection of
\* the table as it stands when it stores.
C12_RebuildStoresNothingStale ==
    [][\A t \in Tx :
          StoreStep(t) =>
              \/ posixAccountsCache' = None
              \/ Entries(posixAccountsCache'[1]) = Directory(View(t))]_vars

----------------------------------------------------------------------------
(* SpecShell: reads of the directory around changeShell, in transactions *)
(* that commit *)

NextShell ==
    \E t \in Tx :
        \/ Begin(t)
        \/ \E i \in 1..MaxIdx, sh \in LoginShells :
               ChangeShellInTx(t, i, sh) \/ ChangeShellInTxNotFound(t, i, sh)
        \/ GetAllAsPosixAccountsCached(t)
        \/ GetAllAsPosixAccountsMiss(t)
        \/ GetAllQuery(t)
        \/ GetAllAsPosixAccountsStore(t)
        \/ Commit(t)

SpecShell == InitCache /\ [][NextShell]_vars

\* a read returns in this step
ReadStep ==
    /\ lastCall'.op = "getAllAsPosixAccounts"
    /\ \E t \in Tx : StoreStep(t) \/ (GetAllAsPosixAccountsCached(t) /\ tx' = tx)

\* the entries of a read, the login shell of one username replaced
WithShell(entries, username, shell) ==
    {IF e.attributes.uid = username
     THEN [e EXCEPT !.attributes.loginShell = shell] ELSE e : e \in entries}

\* C13: a read that follows a read with no mutation in between returns the
\* same entry set; the read that follows a read and then a successful,
\* committed changeShell of one account returns the earlier entry set with
\* only that account's loginShell changed to the new shell.
C13_ReadsFollowChangeShell ==
    [][ReadStep =>
          /\ lastCall.op = "getAllAsPosixAccounts" =>
                 Entries(lastCall'.value[1]) = Entries(lastCall.value[1])
          /\ ( /\ lastCall.op = "changeShell"
               /\ lastCall.outcome = "ok"
               /\ lastCall.prev # None
               /\ \A t \in Tx : tx[t].ins = {} /\ tx[t].del = {}
               /\ \E r \in users : /\ r.idx = lastCall.idx[1]
                                   /\ r.shell = lastCall.shell )
             => \E r \in users :
                    /\ r.idx = lastCall.idx[1]
                    /\ Entries(lastCall'.value[1]) =
                           WithShell(Entries(lastCall.prev[1]), r.username,
                                     lastCall.shell)]_vars

----------------------------------------------------------------------------
(* SpecHost: hosts, host groups and authorizeUserByHost *)

MaxHosts == 2
MaxHostGroups == 2
HostUsers == {1, 2}
Permissions == {1}
Inets == {"10.0.0.1"}

\* a table with the serial behind its idx column
Table(rows, serial) == [rows |-> rows, nextIdx |-> serial]

HostRow(idx, name, host, host_group) ==
    [idx |-> idx, name |-> name, host |-> host, host_group |-> host_group]

HostGroupRow(idx, name, required_permission) ==
    [idx |-> idx, name |-> name, required_permission |-> required_permission]

rowToHost(row) ==
    [idx |-> row.idx, name |-> row.name, host |-> row.host,
     hostGroupIdx |-> row.host_group]

rowToHostGroup(row) ==
    [idx |-> row.idx, name |-> row.name,
     requiredPermissionIdx |-> row.required_permission]

\* the record of a Hosts call
HostCall(op, userIdx, host, outcome, steps) ==
    [op |-> op, userIdx |-> userIdx, host |-> host, outcome |-> outcome,
     steps |-> steps]

\* no host: the host argument of the calls that take none
NoHost == rowToHost(HostRow(0, "", "", None))

\* getHostGroupByIdx that answers an unrestricted group for a missing row
getHostGroupByIdx_lenient(groups, hostGroupIdx) ==
    LET rows == {g \in groups : g.idx = hostGroupIdx}
    IN  IF rows = {}
        THEN [outcome |-> "ok",
              value |-> rowToHostGroup(HostGroupRow(hostGroupIdx, "", None))]
        ELSE [outcome |-> "ok", value |-> rowToHostGroup(CHOOSE g \in rows : TRUE)]

getHostGroupByIdx(groups, hostGroupIdx) ==
    LET rows == {g \in groups : g.idx = hostGroupIdx}
    IN  IF rows = {}
        THEN [outcome |-> "NoSuchEntryError", value |-> NULL]
        ELSE [outcome |-> "ok", value |-> rowToHostGroup(CHOOSE g \in rows : TRUE)]

\* model.permissions.checkUserHavePermission
checkUserHavePermission(held, userIdx, permissionIdx) ==
    <<userIdx, permissionIdx>> \in held

\* steps lists the collaborators the call consulted, in order
authorizeUserByHost(groups, held, userIdx, host) ==
    IF host.hostGroupIdx = None
    THEN [outcome |-> "ok", steps |-> <<>>]
    ELSE LET hostGroup == getHostGroupByIdx(groups, host.hostGroupIdx[1])
         IN  IF hostGroup.outcome # "ok"
             THEN [outcome |-> hostGroup.outcome,
                   steps |-> <<"getHostGroupByIdx">>]
             ELSE IF hostGroup.value.requiredPermissionIdx = None
             THEN [outcome |-> "ok", steps |-> <<"getHostGroupByIdx">>]
             ELSE IF checkUserHavePermission(
                         held, userIdx, hostGroup.value.requiredPermissionIdx[1])
             THEN [outcome |-> "ok",
                   steps |-> <<"getHostGroupByIdx", "checkUserHavePermission">>]
             ELSE [outcome |-> "AuthorizationError",
                   steps |-> <<"getHostGroupByIdx", "checkUserHavePermission">>]

hostVars == <<users, nextIdx, posixAccountsCache, minUid, newUid, tx, now,
              tokens, randomCounter, userMemberships, groupRelations,
              emailAddresses, emailVerificationTokens>>

AddHost(name, host) ==
    /\ hosts.nextIdx <= MaxHosts
    /\ hosts' = Table(hosts.rows \cup {HostRow(hosts.nextIdx, name, host, None)},
                      hosts.nextIdx + 1)
    /\ lastCall' = HostCall("addHost", None, NoHost, "ok", <<>>)
    /\ UNCHANGED <<hostVars, hostGroups, userPermissions>>

DeleteHost(idx) ==
    /\ hosts' = [hosts EXCEPT !.rows = {r \in @ : r.idx # idx}]
    /\ lastCall' = HostCall("deleteHost", None, NoHost,
                            IF \E r \in hosts.rows : r.idx = idx
                            THEN "ok" ELSE "NoSuchEntryError", <<>>)
    /\ UNCHANGED <<hostVars, hostGroups, userPermissions>>

AddHostGroup(name) ==
    /\ hostGroups.nextIdx <= MaxHostGroups
    /\ hostGroups' = Table(hostGroups.rows \cup
                               {HostGroupRow(hostGroups.nextIdx, name, None)},
                           hostGroups.nextIdx + 1)
    /\ lastCall' = HostCall("addHostGroup", None, NoHost, "ok", <<>>)
    /\ UNCHANGED <<hostVars, hosts, userPermissions>>

SetHostGroupPermission(hostGroupIdx, permissionIdx) ==
    /\ hostGroups' =
           [hostGroups EXCEPT !.rows =
               {IF g.idx = hostGroupIdx
                THEN [g EXCEPT !.required_permission = Some(permissionIdx)]
                ELSE g : g \in @}]
    /\ lastCall' = HostCall("setHostGroupPermission", None, NoHost,
                            IF \E g \in hostGroups.rows : g.idx = hostGroupIdx
                            THEN "ok" ELSE "NoSuchEntryError", <<>>)
    /\ UNCHANGED <<hostVars, hosts, userPermissions>>

\* UPDATE hosts SET host_group = $1 WHERE idx = $2: only the host row is looked for
AddHostToGroup(hostIdx, hostGroupIdx) ==
    /\ hosts' = [hosts EXCEPT !.rows =
                    {IF r.idx = hostIdx
                     THEN [r EXCEPT !.host_group = Some(hostGroupIdx)]
                     ELSE r : r \in @}]
    /\ lastCall' = HostCall("addHostToGroup", None, NoHost,
                            IF \E r \in hosts.rows : r.idx = hostIdx
                            THEN "ok" ELSE "NoSuchEntryError", <<>>)
    /\ UNCHANGED <<hostVars, hostGroups, userPermissions>>

\* getHostByInet: rows[0] of the hosts with this address
getHostByInet(rows, inet) == {rowToHost(r) : r \in {q \in rows : q.host = inet}}

\* authorizeUserByHost for the host getHostByInet gave
AuthorizeUserByHost(userIdx, inet) ==
    /\ \E host \in getHostByInet(hosts.rows, inet) :
           LET result == authorizeUserByHost(hostGroups.rows, userPermissions,
                                             userIdx, host)
           IN  lastCall' = HostCall("authorizeUserByHost", Some(userIdx), host,
                                    result.outcome, result.steps)
    /\ UNCHANGED <<hostVars, hosts, hostGroups, userPermissions>>

InitHost ==
    /\ users = {}
    /\ nextIdx = 1
    /\ posixAccountsCache = None
    /\ minUid = 10
    /\ newUid = None
    /\ tx = <<>>
    /\ now = 0
    /\ lastCall = NoCall
    /\ tokens = {}
    /\ randomCounter = 0
    /\ hosts = Table({}, 1)
    /\ hostGroups = Table({}, 1)
    /\ userPermissions \in SUBSET (HostUsers \X Permissions)
    /\ userMemberships = {}
    /\ groupRelations = {}
    /\ emailAddresses = {}
    /\ emailVerificationTokens = {}

NextHost ==
    \/ \E inet \in Inets : AddHost("host", inet)
    \/ \E i \in 1..MaxHosts : DeleteHost(i)
    \/ AddHostGroup("group")
    \/ \E g \in 1..MaxHostGroups, p \in Permissions : SetHostGroupPermission(g, p)
    \/ \E i \in 1..MaxHosts, g \in 1..MaxHostGroups : AddHostToGroup(i, g)
    \/ \E u \in HostUsers, inet \in Inets : AuthorizeUserByHost(u, inet)

SpecHost == InitHost /\ [][NextHost]_vars

\* the four states of a host against the tables
Unrestricted(host) == host.hostGroupIdx = None

GroupOf(host) == {g \in hostGroups.rows : g.idx = host.hostGroupIdx[1]}

GroupMissing(host) == ~Unrestricted(host) /\ GroupOf(host) = {}

GroupOnly(host) ==
    /\ ~Unrestricted(host)
    /\ \E g \in GroupOf(host) : g.required_permission = None

Permitted(userIdx, host) ==
    /\ ~Unrestricted(host)
    /\ \E g \in GroupOf(host) :
           /\ g.required_permission # None
           /\ <<userIdx, g.required_permission[1]>> \in userPermissions

Consulted(name) == \E i \in 1..Len(lastCall.steps) : lastCall.steps[i] = name

\* C14 as the spec states it: authorizeUserByHost succeeds iff the host has no
\* group, or its group requires no permission, or the checker says the user
\* holds the required one; in every remaining case it fails with
\* AuthorizationError; the checker is consulted only in the third state and
\* the group is loaded only for a non-null hostGroupIdx.
C14_ThreeStates ==
    lastCall.op = "authorizeUserByHost" =>
        LET u == lastCall.userIdx[1]
            h == lastCall.host
            pass == Unrestricted(h) \/ GroupOnly(h) \/ Permitted(u, h)
        IN  /\ lastCall.outcome = "ok" <=> pass
            /\ ~pass => lastCall.outcome = "AuthorizationError"
            /\ Consulted("checkUserHavePermission") =>
                   ~Unrestricted(h) /\ ~GroupOnly(h)
            /\ Consulted("getHostGroupByIdx") => ~Unrestricted(h)

\* C14, amended: the same, except that a non-null hostGroupIdx with no
\* host_groups row fails with NoSuchEntryError before the checker is
\* consulted, and AuthorizationError is the failure of the case in which the
\* group exists and requires a permission the user does not hold.
C14_FourStates ==
    lastCall.op = "authorizeUserByHost" =>
        LET u == lastCall.userIdx[1]
            h == lastCall.host
            pass == Unrestricted(h) \/ GroupOnly(h) \/ Permitted(u, h)
        IN  /\ lastCall.outcome = "ok" <=> pass
            /\ GroupMissing(h) <=> lastCall.outcome = "NoSuchEntryError"
            /\ ~pass /\ ~GroupMissing(h) <=>
                   lastCall.outcome = "AuthorizationError"
            /\ Consulted("checkUserHavePermission") <=>
                   ~Unrestricted(h) /\ ~GroupMissing(h) /\ ~GroupOnly(h)
            /\ Consulted("getHostGroupByIdx") <=> ~Unrestricted(h)

C14_Witness ==
    /\ lastCall.op = "authorizeUserByHost"
    /\ lastCall.outcome = "AuthorizationError"
    /\ Consulted("checkUserHavePermission")
    /\ \E v \in HostUsers : Permitted(v, lastCall.host)

----------------------------------------------------------------------------
(* SpecMember: user memberships and getUserReachableGroups *)

MaxMemberships == 2
MemberUsers == {1, 2}
Groups == {1, 2, 3}

MembershipRow(idx, user_idx, group_idx) ==
    [idx |-> idx, user_idx |-> user_idx, group_idx |-> group_idx]

rowToUserMembership(row) == [userIdx |-> row.user_idx, groupIdx |-> row.group_idx]

\* the elements of a set of numbers, ascending
RECURSIVE Ascending(_)
Ascending(S) ==
    IF S = {} THEN <<>> ELSE <<SetMin(S)>> \o Ascending(S \ {SetMin(S)})

\* the walk of the group graph with its visited list: todo is the stack
RECURSIVE walkGroups(_, _, _)
walkGroups(edges, todo, visited) ==
    IF todo = <<>> THEN visited
    ELSE LET g == Head(todo)
         IN  IF g \in Entries(visited)
             THEN walkGroups(edges, Tail(todo), visited)
             ELSE walkGroups(edges,
                             Ascending({e[2] : e \in {d \in edges : d[1] = g}})
                                 \o Tail(todo),
                             Append(visited, g))

\* model.groups.getGroupReachableArray
getGroupReachableArray(edges, groupIdx) == walkGroups(edges, <<groupIdx>>, <<>>)

\* getAllUserMemberships that returns the empty array for no rows
getAllUserMemberships_lenient(rows, userIdx) ==
    LET found == {r \in rows : r.user_idx = userIdx}
        byIdx == Ascending({r.idx : r \in found})
    IN  [outcome |-> "ok",
         value |-> [i \in 1..Len(byIdx) |->
                       rowToUserMembership(CHOOSE r \in found : r.idx = byIdx[i])]]

getAllUserMemberships(rows, userIdx) ==
    LET found == {r \in rows : r.user_idx = userIdx}
        byIdx == Ascending({r.idx : r \in found})
    IN  IF found = {}
        THEN [outcome |-> "NoSuchEntryError", value |-> <<>>]
        ELSE [outcome |-> "ok",
              value |-> [i \in 1..Len(byIdx) |->
                            rowToUserMembership(CHOOSE r \in found : r.idx = byIdx[i])]]

\* for (const userMembership of userMemberships) { ... groupSet.add(gi) }
RECURSIVE addReachable(_, _, _)
addReachable(edges, memberships, groupSet) ==
    IF memberships = <<>> THEN groupSet
    ELSE addReachable(edges, Tail(memberships),
                      groupSet \cup
                          Entries(getGroupReachableArray(edges,
                                                         Head(memberships).groupIdx)))

getUserReachableGroups(rows, edges, userIdx) ==
    LET userMemberships_ == getAllUserMemberships(rows, userIdx)
    IN  IF userMemberships_.outcome # "ok"
        THEN [outcome |-> userMemberships_.outcome, value |-> {}]
        ELSE [outcome |-> "ok",
              value |-> addReachable(edges, userMemberships_.value, {})]

\* the record of a membership call
MemberCall(op, userIdx, outcome, value) ==
    [op |-> op, userIdx |-> userIdx, outcome |-> outcome, value |-> value]

memberVars == <<users, nextIdx, posixAccountsCache, minUid, newUid, tx, now,
                tokens, randomCounter, hosts, hostGroups, userPermissions,
                emailAddresses, emailVerificationTokens>>

AddUserMembership(userIdx, groupIdx) ==
    /\ userMemberships.nextIdx <= MaxMemberships
    /\ userMemberships' =
           Table(userMemberships.rows \cup
                     {MembershipRow(userMemberships.nextIdx, userIdx, groupIdx)},
                 userMemberships.nextIdx + 1)
    /\ lastCall' = MemberCall("addUserMembership", userIdx, "ok",
                              {userMemberships.nextIdx})
    /\ UNCHANGED <<memberVars, groupRelations>>

DeleteUserMembership(userMembershipIdx) ==
    /\ userMemberships' =
           [userMemberships EXCEPT !.rows = {r \in @ : r.idx # userMembershipIdx}]
    /\ lastCall' = MemberCall("deleteUserMembership", 0,
                              IF \E r \in userMemberships.rows :
                                     r.idx = userMembershipIdx
                              THEN "ok" ELSE "NoSuchEntryError",
                              {userMembershipIdx})
    /\ UNCHANGED <<memberVars, groupRelations>>

GetUserReachableGroups(userIdx) ==
    /\ LET result == getUserReachableGroups(userMemberships.rows, groupRelations,
                                            userIdx)
       IN  lastCall' = MemberCall("getUserReachableGroups", userIdx,
                                  result.outcome, result.value)
    /\ UNCHANGED <<memberVars, userMemberships, groupRelations>>

InitMember ==
    /\ users = {}
    /\ nextIdx = 1
    /\ posixAccountsCache = None
    /\ minUid = 10
    /\ newUid = None
    /\ tx = <<>>
    /\ now = 0
    /\ lastCall = NoCall
    /\ tokens = {}
    /\ randomCounter = 0
    /\ hosts = {}
    /\ hostGroups = {}
    /\ userPermissions = {}
    /\ userMemberships = Table({}, 1)
    /\ groupRelations \in SUBSET {e \in Groups \X Groups : e[1] # e[2]}
    /\ emailAddresses = {}
    /\ emailVerificationTokens = {}

NextMember ==
    \/ \E u \in MemberUsers, g \in Groups : AddUserMembership(u, g)
    \/ \E i \in 1..MaxMemberships : DeleteUserMembership(i)
    \/ \E u \in MemberUsers : GetUserReachableGroups(u)

SpecMember == InitMember /\ [][NextMember]_vars

\* a path in the group graph: each group is a member of the next
IsPath(path) ==
    \A i \in 1..(Len(path) - 1) : <<path[i], path[i + 1]>> \in groupRelations

\* the reflexive-transitive closure of one group: the ends of the paths from it
Closure(g) ==
    {n \in Groups :
        \E k \in 1..Cardinality(Groups) :
            \E path \in [1..k -> Groups] :
                path[1] = g /\ path[k] = n /\ IsPath(path)}

\* C15: getUserReachableGroups returns exactly the union, over the user's
\* direct membership rows, of the reflexive-transitive closure of each row's
\* group, cycles or not, and fails with NoSuchEntryError exactly when the user
\* has no membership row.
C15_UnionOfClosures ==
    lastCall.op = "getUserReachableGroups" =>
        LET direct == {r \in userMemberships.rows : r.user_idx = lastCall.userIdx}
        IN  /\ direct = {} <=> lastCall.outcome = "NoSuchEntryError"
            /\ direct # {} =>
                   /\ lastCall.outcome = "ok"
                   /\ lastCall.value = UNION {Closure(r.group_idx) : r \in direct}

\* a user twice in group 1 of the cycle 1 -> 2 -> 1 reaches {1, 2}
C15_Witness ==
    /\ lastCall.op = "getUserReachableGroups"
    /\ lastCall.outcome = "ok"
    /\ groupRelations = {<<1, 2>>, <<2, 1>>}
    /\ Cardinality({r \in userMemberships.rows :
                       r.user_idx = lastCall.userIdx /\ r.group_idx = 1}) = 2
    /\ lastCall.value = {1, 2}

----------------------------------------------------------------------------
(* SpecAuth: what a failed authenticate tells about the account *)

\* C16: authenticate for a username with no account and authenticate for an
\* activated account with a wrong password fail in the same observable way,
\* with AuthenticationError, so the outcome does not reveal whether the
\* account exists.
C16_FailureHidesExistence ==
    [][AuthStep =>
        LET match == {r \in users : r.username = lastCall'.username}
            unknown == match = {}
            wrongPassword ==
                \E r \in match :
                    r.activated /\ ~MadeFrom(r.passwordDigest, lastCall'.password)
        IN  (unknown \/ wrongPassword) =>
                lastCall'.outcome = "AuthenticationError"]_vars

----------------------------------------------------------------------------
(* SpecEmail: email addresses and the check of a verification token *)

MaxEmailAddresses == 2
MaxEmailTokens == 2
EmailLocals == {"alice", "bob"}
EmailDomains == {"snu.ac.kr"}

\* a string as the sequence of its characters: the n-th random token, and the
\* suffix a caller may append
TokenString(n) == <<"k", ToString(n)>>
Doge == <<"d", "o", "g", "e">>

\* what a caller may submit: a token ever drawn, one with the suffix, the
\* suffix alone, the empty string
Submitted ==
    {TokenString(n) : n \in 1..MaxEmailTokens} \cup
    {TokenString(n) \o Doge : n \in 1..MaxEmailTokens} \cup {Doge, <<>>}

EmailAddressRow(idx, local, domain) ==
    [idx |-> idx, address_local |-> local, address_domain |-> domain]

EmailTokenRow(email_idx, token) == [email_idx |-> email_idx, token |-> token]

NoEmailAddress == [emailLocal |-> "", emailDomain |-> ""]

\* the record of an email call: prev is the outcome of the check just before
EmailCall(op, token, outcome, value, prev) ==
    [op |-> op, token |-> token, outcome |-> outcome, value |-> value,
     prev |-> prev]

\* a token row per email address: a new token replaces the one it had
upsertVerificationToken(rows, emailIdx, token) ==
    {r \in rows : r.email_idx # emailIdx} \cup {EmailTokenRow(emailIdx, token)}

\* a check that compares only as many characters as the stored token has
checkToken_prefix(rows, addresses, token) ==
    LET found == {r \in rows :
                     /\ Len(token) >= Len(r.token)
                     /\ SubSeq(token, 1, Len(r.token)) = r.token}
    IN  IF found = {}
        THEN [outcome |-> "invalid", value |-> NoEmailAddress]
        ELSE LET r == CHOOSE q \in found : TRUE
                 a == CHOOSE b \in addresses : b.idx = r.email_idx
             IN  [outcome |-> "ok",
                  value |-> [emailLocal |-> a.address_local,
                             emailDomain |-> a.address_domain]]

\* POST /api/email/check-token: the row WHERE token = $1, and its address
checkToken(rows, addresses, token) ==
    LET found == {r \in rows : r.token = token}
    IN  IF found = {}
        THEN [outcome |-> "invalid", value |-> NoEmailAddress]
        ELSE LET r == CHOOSE q \in found : TRUE
                 a == CHOOSE b \in addresses : b.idx = r.email_idx
             IN  [outcome |-> "ok",
                  value |-> [emailLocal |-> a.address_local,
                             emailDomain |-> a.address_domain]]

emailVars == <<users, nextIdx, posixAccountsCache, minUid, newUid, tx, now,
               tokens, hosts, hostGroups, userPermissions, userMemberships,
               groupRelations>>

\* model.emailAddresses.create
CreateEmailAddress(local, domain) ==
    /\ emailAddresses.nextIdx <= MaxEmailAddresses
    /\ emailAddresses' =
           Table(emailAddresses.rows \cup
                     {EmailAddressRow(emailAddresses.nextIdx, local, domain)},
                 emailAddresses.nextIdx + 1)
    /\ lastCall' = EmailCall("create", <<>>, "ok", NoEmailAddress, "none")
    /\ UNCHANGED <<emailVars, emailVerificationTokens, randomCounter>>

\* model.emailAddresses.generateVerificationToken: a fresh random token
GenerateVerificationToken(emailIdx) ==
    /\ randomCounter < MaxEmailTokens
    /\ \E a \in emailAddresses.rows : a.idx = emailIdx
    /\ randomCounter' = randomCounter + 1
    /\ emailVerificationTokens' =
           upsertVerificationToken(emailVerificationTokens, emailIdx,
                                   TokenString(randomCounter'))
    /\ lastCall' = EmailCall("generateVerificationToken",
                             TokenString(randomCounter'), "ok", NoEmailAddress,
                             "none")
    /\ UNCHANGED <<emailVars, emailAddresses>>

CheckToken(token) ==
    /\ LET result == checkToken(emailVerificationTokens, emailAddresses.rows,
                                token)
       IN  lastCall' = EmailCall("checkToken", token, result.outcome,
                                 result.value,
                                 IF lastCall.op = "checkToken"
                                 THEN lastCall.outcome ELSE "none")
    /\ UNCHANGED <<emailVars, emailAddresses, emailVerificationTokens,
                   randomCounter>>

InitEmail ==
    /\ users = {}
    /\ nextIdx = 1
    /\ posixAccountsCache = None
    /\ minUid = 10
    /\ newUid = None
    /\ tx = <<>>
    /\ now = 0
    /\ lastCall = NoCall
    /\ tokens = {}
    /\ randomCounter = 0
    /\ hosts = {}
    /\ hostGroups = {}
    /\ userPermissions = {}
    /\ userMemberships = {}
    /\ groupRelations = {}
    /\ emailAddresses = Table({}, 1)
    /\ emailVerificationTokens = {}

NextEmail ==
    \/ \E local \in EmailLocals, domain \in EmailDomains :
           CreateEmailAddress(local, domain)
    \/ \E i \in 1..MaxEmailAddresses : GenerateVerificationToken(i)
    \/ \E token \in Submitted : CheckToken(token)

SpecEmail == InitEmail /\ [][NextEmail]_vars

\* C17: check-token accepts a string exactly when it equals the token stored
\* for an email address record, and then returns that record's local part
\* and domain; any other string, the real token with a suffix included, is
\* rejected as invalid, and a rejected attempt changes nothing, so the exact
\* token is accepted afterwards.
C17_ExactTokenOnly ==
    [][lastCall'.op = "checkToken" =>
        LET found == {r \in emailVerificationTokens : r.token = lastCall'.token}
        IN  /\ lastCall'.outcome = "ok" <=> found # {}
            /\ found = {} => lastCall'.outcome = "invalid"
            /\ lastCall'.outcome = "ok" =>
                   \E r \in found, a \in emailAddresses.rows :
                       /\ a.idx = r.email_idx
                       /\ lastCall'.value = [emailLocal |-> a.address_local,
                                             emailDomain |-> a.address_domain]
            /\ emailVerificationTokens' = emailVerificationTokens
            /\ emailAddresses' = emailAddresses]_vars

\* the exact token accepted right after the token with a suffix was rejected
C17_Witness ==
    /\ lastCall.op = "checkToken"
    /\ lastCall.outcome = "ok"
    /\ lastCall.prev = "invalid"
    /\ lastCall.value.emailLocal = "bob"
    /\ \E r \in emailVerificationTokens : r.token = lastCall.token

----------------------------------------------------------------------------
(* SpecDir: every operation of Users, each in a transaction of its own, *)
(* around the directory cache                                            *)

\* changeShell that resets the cache before it looks at the result
cacheAfterChangeShell_always(cache, found) == None

\* changeShell: the throw for no row comes before this.posixAccountsCache = null
cacheAfterChangeShell(cache, found) == IF found THEN None ELSE cache

ChangeShell(userIdx, shell) ==
    LET found == \E r \in users : r.idx = userIdx
    IN  /\ users' = updateShell(users, userIdx, shell)
        /\ posixAccountsCache' = cacheAfterChangeShell(posixAccountsCache, found)
        /\ lastCall' = CacheCall("changeShell", Some(userIdx), shell,
                                 IF found THEN "ok" ELSE "NoSuchEntryError",
                                 None, None)
        /\ UNCHANGED <<otherTables, nextIdx, minUid, newUid, tx, now, tokens,
                       randomCounter>>

\* getAllAsPosixAccounts, its getAll included
GetAllAsPosixAccounts ==
    /\ posixAccountsCache' =
           IF posixAccountsCache = None
           THEN Some(usersToPosixAccounts(getAll(users)).value)
           ELSE posixAccountsCache
    /\ lastCall' = CacheCall("getAllAsPosixAccounts", None, NULL, "ok",
                             posixAccountsCache', None)
    /\ UNCHANGED <<otherTables, users, nextIdx, minUid, newUid, tx, now, tokens,
                   randomCounter>>

\* delete of an idx that has no row: NoSuchEntryError
DeleteAccountNotFound(userIdx) ==
    /\ ~\E r \in users : r.idx = userIdx
    /\ lastCall' = Call("delete", NULL, NULL, Some(userIdx),
                        [outcome |-> "NoSuchEntryError", steps |-> <<"delete">>])
    /\ UNCHANGED <<otherTables, users, nextIdx, posixAccountsCache, minUid, newUid,
                   tx, now, tokens, randomCounter>>

\* create whose INSERT fails on the username
CreateAccountRefused(username, password) ==
    /\ UsernameTaken(users, username)
    /\ lastCall' = Call("create", username, password, None,
                        [outcome |-> "error", steps |-> <<"hash", "scan", "insert">>])
    /\ UNCHANGED <<otherTables, users, nextIdx, posixAccountsCache, minUid, newUid,
                   tx, now, tokens, randomCounter>>

UpdateLastLoginAt(userIdx) ==
    /\ users' = updateLastLoginAt(users, userIdx, now)
    /\ lastCall' = Call("updateLastLoginAt", NULL, NULL, Some(userIdx),
                        [outcome |-> "ok", steps |-> <<"update">>])
    /\ UNCHANGED <<otherTables, nextIdx, posixAccountsCache, minUid, newUid, tx, now,
                   tokens, randomCounter>>

InitDir ==
    /\ users = {Row(1, "alice", legacyStored("mssql-sha1", <<"b", "a">>, "s1"), 10,
                    "/bin/bash", TRUE, None)}
    /\ nextIdx = 2
    /\ posixAccountsCache = None
    /\ minUid = 10
    /\ newUid = None
    /\ tx = <<>>
    /\ now = 0
    /\ lastCall = NoCall
    /\ tokens = {}
    /\ randomCounter = 0
    /\ hosts = {}
    /\ hostGroups = {}
    /\ userPermissions = {}
    /\ userMemberships = Table({}, 1)
    /\ groupRelations = {}
    /\ emailAddresses = {}
    /\ emailVerificationTokens = {}

NextDir ==
    \/ GetAllAsPosixAccounts
    \/ \E p \in {<<"a">>} : CreateAccount("bob", p, "/bin/bash", "s1")
    \/ \E u \in {"alice", "bob"} : CreateAccountRefused(u, <<"a">>)
    \/ \E i \in 1..MaxIdx : DeleteAccount(i)
    \/ \E i \in 1..MaxIdx : DeleteAccountNotFound(i)
    \/ \E i \in 1..MaxIdx, sh \in LoginShells : ChangeShell(i, sh)
    \/ \E p \in Passwords : Authenticate("alice", p, "s1")
    \/ \E i \in {1} : ChangePassword(i, <<"a">>, "s1")
    \/ \E i \in {1} : Activate(i)
    \/ \E i \in {1} : Deactivate(i)
    \/ \E i \in {1} : UpdateLastLoginAt(i)
    \/ \E i \in {1} : tokens = {} /\ randomCounter = 0
                         /\ GeneratePasswordChangeToken(i, now)
    \/ \E t \in {1} : RemoveToken(t)
    \/ \E g \in {1} : userMemberships.rows = {} /\ AddUserMembership(1, g)
    \/ \E i \in {1} : DeleteUserMembership(i)

SpecDir == InitDir /\ [][NextDir]_vars

ClearingOps == {"create", "delete", "changeShell"}

\* C18: the cache is cleared by exactly the successful completions of create,
\* delete and changeShell: every such completion leaves it null, a read is the
\* only thing that fills it, and every other call (changePassword, the
\* migration in authenticate, activate, deactivate, updateLastLoginAt, token
\* and membership operations, a delete or changeShell that fails with
\* NoSuchEntryError) leaves it as it was.
C18_ClearedByCreateDeleteChangeShell ==
    [][/\ (lastCall'.op \in ClearingOps /\ lastCall'.outcome = "ok")
              => posixAccountsCache' = None
       /\ posixAccountsCache' # posixAccountsCache =>
              \/ /\ lastCall'.op \in ClearingOps
                 /\ lastCall'.outcome = "ok"
                 /\ posixAccountsCache' = None
              \/ /\ lastCall'.op = "getAllAsPosixAccounts"
                 /\ posixAccountsCache = None]_vars

\* a changeShell failed with NoSuchEntryError and the cache is still filled
C18_Witness ==
    /\ lastCall.op = "changeShell"
    /\ lastCall.outcome = "NoSuchEntryError"
    /\ posixAccountsCache # None
    /\ \E r \in users : r.passwordDigest.id = "argon2i"

----------------------------------------------------------------------------
(* SpecProjection: usersToPosixAccounts over every small table of accounts *)

MaxAccounts == 3

\* the username of the account at a position, when it has one
UsernameAt(i) == "user" \o ToString(i)

\* an account with or without a username, with or without a shell
AccountChoices(i) == {NULL, UsernameAt(i)} \X ({NULL} \cup LoginShells)

\* this.usersToPosixAccounts(await this.getAll(tr)), and what came of it
UsersToPosixAccounts ==
    /\ LET result == usersToPosixAccounts(getAll(users))
       IN  lastCall' = CacheCall("usersToPosixAccounts", None, NULL,
                                 result.outcome,
                                 IF result.outcome = "ok"
                                 THEN Some(result.value) ELSE None,
                                 None)
    /\ UNCHANGED <<otherTables, users, nextIdx, posixAccountsCache, minUid, newUid,
                   tx, now, tokens, randomCounter>>

InitProjection ==
    /\ \E n \in 0..MaxAccounts :
           \E f \in [1..n -> UNION {AccountChoices(i) : i \in 1..n}] :
               /\ \A i \in 1..n : f[i] \in AccountChoices(i)
               /\ users = {Row(i, f[i][1], argon2Hash(<<"a">>, "s1"), 10 + i,
                               f[i][2], TRUE, None) : i \in 1..n}
    /\ nextIdx = Cardinality(users) + 1
    /\ posixAccountsCache = None
    /\ minUid = 10
    /\ newUid = None
    /\ tx = <<>>
    /\ now = 0
    /\ lastCall = NoCall
    /\ tokens = {}
    /\ randomCounter = 0
    /\ NoOtherTables

NextProjection == UsersToPosixAccounts

SpecProjection == InitProjection /\ [][NextProjection]_vars

\* the accounts that have both a username and a shell
Projectable == {r \in users : r.username # NULL /\ r.shell # NULL}

\* C19: a directory build never fails and yields exactly one entry per
\* account that has both a username and a shell, in account order, each with
\* that account's own name, shell and uid, and no entry for any other
\* account.
C19_OneEntryPerProjectable ==
    lastCall.op = "usersToPosixAccounts" =>
        /\ lastCall.outcome = "ok"
        /\ Len(lastCall.value[1]) = Cardinality(Projectable)
        /\ \A k \in 1..Len(lastCall.value[1]) :
               \E r \in Projectable :
                   /\ Cardinality({q \in Projectable : q.idx < r.idx}) = k - 1
                   /\ lastCall.value[1][k].dn = "cn=" \o r.username \o "," \o usersDN
                   /\ lastCall.value[1][k].attributes.uid = r.username
                   /\ lastCall.value[1][k].attributes.cn = r.username
                   /\ lastCall.value[1][k].attributes.loginShell = r.shell
                   /\ lastCall.value[1][k].attributes.uidNumber = r.uid

\* an account without a shell between two accounts that have entries
C19_Witness ==
    /\ lastCall.op = "usersToPosixAccounts"
    /\ lastCall.outcome = "ok"
    /\ Len(lastCall.value[1]) = 2
    /\ \E r \in users : r.idx = 2 /\ r.username # NULL /\ r.shell = NULL
    /\ lastCall.value[1][1].attributes.uidNumber = 11
    /\ lastCall.value[1][2].attributes.uidNumber = 13

----------------------------------------------------------------------------
(* SpecToken: one token row per user *)

TokenLookupOps ==
    {"getUserIdxByPasswordToken", "getResendCount", "ensureTokenNotExpired",
     "removeToken"}

\* the step is a lookup by token string
LookupStep == lastCall'.op \in TokenLookupOps /\ lastCall' # lastCall

\* C20: there is at most one password-change token row per user; a reissue
\* leaves the user's row holding the newly issued token, so the token it held
\* before resolves to no row; a lookup of a token with no row fails with
\* NoSuchEntryError in getUserIdxByPasswordToken, getResendCount,
\* ensureTokenNotExpired and removeToken alike; and a row's token only ever
\* changes by a reissue for its user, so the token that maps to a user is the
\* one issued to that user last.
C20_OneTokenPerUser ==
    [][/\ \A r1 \in tokens', r2 \in tokens' :
              r1.userIdx = r2.userIdx => r1 = r2
       /\ GenerateStep =>
              /\ \E r \in tokens' : /\ r.userIdx = lastCall'.userIdx
                                    /\ r.token = lastCall'.token
              /\ \A r \in tokens :
                     r.userIdx = lastCall'.userIdx =>
                         selectByToken(tokens', r.token) = {}
       /\ (LookupStep /\ selectByToken(tokens, lastCall'.token) = {}) =>
              lastCall'.outcome = "NoSuchEntryError"
       /\ (lastCall'.op = "getUserIdxByPasswordToken" /\ lastCall'.outcome = "ok") =>
              \E r \in tokens' : /\ r.token = lastCall'.token
                                 /\ lastCall'.value = Some(r.userIdx)
       /\ \A r \in tokens' :
              \/ \E q \in tokens : q.userIdx = r.userIdx /\ q.token = r.token
              \/ /\ GenerateStep
                 /\ r.userIdx = lastCall'.userIdx
                 /\ r.token = lastCall'.token
                 /\ \A q \in tokens : q.token < r.token]_vars

\* after a reissue the first token of the user resolves to nothing
C20_Witness ==
    /\ lastCall.op = "getUserIdxByPasswordToken"
    /\ lastCall.outcome = "NoSuchEntryError"
    /\ lastCall.token = 1
    /\ randomCounter = 2
    /\ \E r \in tokens : r.token = 2 /\ r.resendCount = 1

====
